---- MODULE Spec2Model ----
(***************************************************************************)
(* Model of the immutable bit set of package bitset (src/bitset.go).       *)
(*                                                                         *)
(* A uint64 word is modelled as the set of the positions of its one bits   *)
(* (a subset of 0..63): | is \cup, &^ is \, & is \cap, 0 is {}.            *)
(* A slice is an address into mem; mem[a] is the sequence of its words.    *)
(* Go indexes slices from 0, TLA+ sequences from 1: slot k is mem[a][k+1]. *)
(***************************************************************************)
EXTENDS Integers, Sequences, FiniteSets

VARIABLES mem, set, bld, pend

vars == <<mem, set, bld, pend>>

\* ------------------------------------------------------------------ bounds
W == 64
MaxIndex == 200
MaxHint == 200
MaxMany == 2
NAddr == 6
NThreads == 2

Indices == {0, W - 1, W, MaxIndex}
Hints == {0, W, W + 1, MaxHint}
Probe == Indices \cup {1, W + 1, MaxIndex + 1}
ManySeqs == UNION {[1..n -> Indices] : n \in 0..MaxMany}
Threads == 1..NThreads

\* ------------------------------------------------------------ word helpers
Max(a, b) == IF a >= b THEN a ELSE b

\* 1 << n on a uint64: the shift count is not reduced, a count >= 64 gives 0.
Shl1(n) == IF n < W THEN {n} ELSE {}

InRange(b, k) == k >= 0 /\ k < Len(b)

\* b[k], slot k counted from 0; the caller records whether k is in range.
At(b, k) == IF InRange(b, k) THEN b[k + 1] ELSE {}

Zeros(n) == [k \in 1..n |-> {}]

\* ------------------------------------------------------------------ values
Inline(w) == [kind |-> "inline", word |-> w, addr |-> 0]
Heap(a) == [kind |-> "heap", word |-> {}, addr |-> a]

\* The heap: mem[a] is the slice at address a, Free where there is none (the
\* code never makes a slice of length 0).  make([]uint64, n) returns a slice
\* that no live value holds; Collect frees what no variable reaches any more.
Free == <<>>
EmptyMem == [a \in 1..NAddr |-> Free]
FreeAddr(m) == CHOOSE a \in DOMAIN m : m[a] = Free /\ \A c \in DOMAIN m : m[c] = Free => a <= c
Alloc(m, words) == [m EXCEPT ![FreeAddr(m)] = words]
Collect(m, live) == [a \in DOMAIN m |-> IF a \in live THEN m[a] ELSE Free]

\* ----------------------------------------------------------------- bitSet64
bitSet64_Has(w, bitIndex) ==
    IF bitIndex >= 64 THEN FALSE ELSE (w \cap Shl1(bitIndex)) # {}

\* Mutant: the upgrade forgets newBits[0] = uint64(b).
bitSet64_Add_dropsOld(m, w, bitIndex) ==
    IF bitIndex < 64
    THEN [val |-> Inline(w \cup Shl1(bitIndex)), mem |-> m, ok |-> TRUE]
    ELSE LET idx == bitIndex \div 64
             zero == Zeros(idx + 1)
             newBits == [zero EXCEPT ![idx + 1] = @ \cup Shl1(bitIndex % 64)]
         IN  [val |-> Heap(FreeAddr(m)), mem |-> Alloc(m, newBits),
              ok |-> InRange(zero, idx)]

bitSet64_Add(m, w, bitIndex) ==
    IF bitIndex < 64
    THEN [val |-> Inline(w \cup Shl1(bitIndex)), mem |-> m, ok |-> TRUE]
    ELSE LET idx == bitIndex \div 64
             zero == Zeros(idx + 1)
             withOld == [zero EXCEPT ![1] = w]
             newBits == [withOld EXCEPT ![idx + 1] = @ \cup Shl1(bitIndex % 64)]
         IN  [val |-> Heap(FreeAddr(m)), mem |-> Alloc(m, newBits),
              ok |-> InRange(zero, 0) /\ InRange(zero, idx)]

bitSet64_Remove(m, w, bitIndex) ==
    IF bitIndex >= 64
    THEN [val |-> Inline(w), mem |-> m, ok |-> TRUE]
    ELSE [val |-> Inline(w \ Shl1(bitIndex)), mem |-> m, ok |-> TRUE]

\* -------------------------------------------------------------- largeBitSet
\* Mutant: Has without the idx >= len(b) test.
largeBitSet_Has_noGuard(b, bitIndex) ==
    LET idx == bitIndex \div 64
    IN  [res |-> (At(b, idx) \cap Shl1(bitIndex % 64)) # {},
         ok |-> InRange(b, idx)]

largeBitSet_Has(b, bitIndex) ==
    LET idx == bitIndex \div 64
    IN  IF idx >= Len(b)
        THEN [res |-> FALSE, ok |-> TRUE]
        ELSE [res |-> (At(b, idx) \cap Shl1(bitIndex % 64)) # {},
              ok |-> InRange(b, idx)]

\* Mutant: Add sets the bit in b itself when the slot exists, without copying.
largeBitSet_Add_inPlace(m, a, bitIndex) ==
    LET b == m[a]
        idx == bitIndex \div 64
        n == Max(Len(b), idx + 1)
        copied == [k \in 1..n |-> IF k <= Len(b) THEN b[k] ELSE {}]
        newBits == [copied EXCEPT ![idx + 1] = @ \cup Shl1(bitIndex % 64)]
    IN  IF idx < Len(b)
        THEN [val |-> Heap(a), mem |-> [m EXCEPT ![a] = newBits], ok |-> TRUE]
        ELSE [val |-> Heap(FreeAddr(m)), mem |-> Alloc(m, newBits), ok |-> TRUE]

largeBitSet_Add(m, a, bitIndex) ==
    LET b == m[a]
        idx == bitIndex \div 64
        n == Max(Len(b), idx + 1)
        copied == [k \in 1..n |-> IF k <= Len(b) THEN b[k] ELSE {}]
        newBits == IF InRange(copied, idx)
                   THEN [copied EXCEPT ![idx + 1] = @ \cup Shl1(bitIndex % 64)]
                   ELSE copied
    IN  [val |-> Heap(FreeAddr(m)), mem |-> Alloc(m, newBits),
         ok |-> InRange(copied, idx)]

\* The loop of Remove: the highest slot that is neither zero nor, at the
\* slot of bitIndex, exactly the bit being removed; -1 when there is none.
RECURSIVE ScanLast(_, _, _, _)
ScanLast(b, idx, bitIndex, lastIdx) ==
    IF lastIdx >= 0
       /\ (At(b, lastIdx) = {}
           \/ (lastIdx = idx /\ At(b, lastIdx) = Shl1(bitIndex % 64)))
    THEN ScanLast(b, idx, bitIndex, lastIdx - 1)
    ELSE lastIdx

\* Mutant: the loop of Remove skips zero words only, so a word that holds
\* nothing but the bit being removed is kept.
largeBitSet_Remove_zerosOnly(m, a, bitIndex) ==
    LET b == m[a]
        idx == bitIndex \div 64
        lastIdx == ScanLast(b, -1, bitIndex, Len(b) - 1)
    IN  IF idx >= Len(b)
        THEN [val |-> Heap(a), mem |-> m, ok |-> TRUE]
        ELSE IF lastIdx <= 0
        THEN LET w0 == At(b, 0)
                 w == IF w0 # {} /\ idx = 0 THEN w0 \ Shl1(bitIndex) ELSE w0
             IN  [val |-> Inline(w), mem |-> m, ok |-> InRange(b, 0)]
        ELSE LET bits == [k \in 1..(lastIdx + 1) |-> b[k]]
                 newBits == IF idx < Len(bits)
                            THEN [bits EXCEPT ![idx + 1] = @ \ Shl1(bitIndex % 64)]
                            ELSE bits
             IN  [val |-> Heap(FreeAddr(m)), mem |-> Alloc(m, newBits),
                  ok |-> lastIdx + 1 <= Len(b)]

\* Mutant: Remove copies the whole receiver when it stays in heap form, so a
\* word left zero at the end is kept.
largeBitSet_Remove_noShrink(m, a, bitIndex) ==
    LET b == m[a]
        idx == bitIndex \div 64
        lastIdx == ScanLast(b, idx, bitIndex, Len(b) - 1)
    IN  IF idx >= Len(b)
        THEN [val |-> Heap(a), mem |-> m, ok |-> TRUE]
        ELSE IF lastIdx <= 0
        THEN LET w0 == At(b, 0)
                 w == IF w0 # {} /\ idx = 0 THEN w0 \ Shl1(bitIndex) ELSE w0
             IN  [val |-> Inline(w), mem |-> m, ok |-> InRange(b, 0)]
        ELSE LET newBits == [b EXCEPT ![idx + 1] = @ \ Shl1(bitIndex % 64)]
             IN  [val |-> Heap(FreeAddr(m)), mem |-> Alloc(m, newBits), ok |-> TRUE]

largeBitSet_Remove(m, a, bitIndex) ==
    LET b == m[a]
        idx == bitIndex \div 64
        lastIdx == ScanLast(b, idx, bitIndex, Len(b) - 1)
    IN  IF idx >= Len(b)
        THEN [val |-> Heap(a), mem |-> m, ok |-> TRUE]
        ELSE IF lastIdx <= 0
        THEN LET w0 == At(b, 0)
                 w == IF w0 # {} /\ idx = 0 THEN w0 \ Shl1(bitIndex) ELSE w0
             IN  [val |-> Inline(w), mem |-> m, ok |-> InRange(b, 0)]
        ELSE LET bits == [k \in 1..(lastIdx + 1) |-> b[k]]
                 newBits == IF idx < Len(bits)
                            THEN [bits EXCEPT ![idx + 1] = @ \ Shl1(bitIndex % 64)]
                            ELSE bits
             IN  [val |-> Heap(FreeAddr(m)), mem |-> Alloc(m, newBits),
                  ok |-> lastIdx + 1 <= Len(b)]

\* ------------------------------------------------- Set interface dispatch
Set_Has(m, v, bitIndex) ==
    IF v.kind = "inline"
    THEN [res |-> bitSet64_Has(v.word, bitIndex), ok |-> TRUE]
    ELSE largeBitSet_Has(m[v.addr], bitIndex)

Set_Add(m, v, bitIndex) ==
    IF v.kind = "inline"
    THEN bitSet64_Add(m, v.word, bitIndex)
    ELSE largeBitSet_Add(m, v.addr, bitIndex)

Set_Remove(m, v, bitIndex) ==
    IF v.kind = "inline"
    THEN bitSet64_Remove(m, v.word, bitIndex)
    ELSE largeBitSet_Remove(m, v.addr, bitIndex)

New == Inline({})

\* ----------------------------------------------------------------- builders
\* Mutant: With below 64 returns the receiver as it is.
bitSet64_With_noBit(m, w, bitIndex) ==
    LET s == bitSet64_Add(m, w, bitIndex)
    IN  IF bitIndex < 64
        THEN [val |-> Inline(w), mem |-> m, ok |-> TRUE]
        ELSE [val |-> s.val, mem |-> s.mem, ok |-> s.ok /\ s.val.kind = "heap"]

bitSet64_With(m, w, bitIndex) ==
    LET s == bitSet64_Add(m, w, bitIndex)
    IN  IF bitIndex < 64
        THEN [val |-> s.val, mem |-> s.mem, ok |-> s.ok /\ s.val.kind = "inline"]
        ELSE [val |-> s.val, mem |-> s.mem, ok |-> s.ok /\ s.val.kind = "heap"]

\* Mutant: the in-capacity branch assigns the bit (=) instead of or-ing it (|=).
bitSetBuilder_With_assign(m, a, bitIndex) ==
    LET b == m[a]
        idx == bitIndex \div 64
    IN  IF idx < Len(b)
        THEN [val |-> Heap(a),
              mem |-> [m EXCEPT ![a][idx + 1] = Shl1(bitIndex % 64)],
              ok |-> InRange(b, idx)]
        ELSE LET s == largeBitSet_Add(m, a, bitIndex)
             IN  [val |-> s.val, mem |-> s.mem, ok |-> s.ok /\ s.val.kind = "heap"]

\* Mutant: growth allocates the longer slice but does not copy b into it.
bitSetBuilder_With_noCopy(m, a, bitIndex) ==
    LET b == m[a]
        idx == bitIndex \div 64
    IN  IF idx < Len(b)
        THEN [val |-> Heap(a),
              mem |-> [m EXCEPT ![a][idx + 1] = @ \cup Shl1(bitIndex % 64)],
              ok |-> InRange(b, idx)]
        ELSE [val |-> Heap(FreeAddr(m)),
              mem |-> Alloc(m, [Zeros(idx + 1) EXCEPT ![idx + 1] = Shl1(bitIndex % 64)]),
              ok |-> TRUE]

bitSetBuilder_With(m, a, bitIndex) ==
    LET b == m[a]
        idx == bitIndex \div 64
    IN  IF idx < Len(b)
        THEN [val |-> Heap(a),
              mem |-> [m EXCEPT ![a][idx + 1] = @ \cup Shl1(bitIndex % 64)],
              ok |-> InRange(b, idx)]
        ELSE LET s == largeBitSet_Add(m, a, bitIndex)
             IN  [val |-> s.val, mem |-> s.mem, ok |-> s.ok /\ s.val.kind = "heap"]

Builder_With(m, v, bitIndex) ==
    IF v.kind = "inline"
    THEN bitSet64_With(m, v.word, bitIndex)
    ELSE bitSetBuilder_With(m, v.addr, bitIndex)

\* WithMany: bld = bld.With(i) for each i in order, starting from b itself.
RECURSIVE Builder_WithMany(_, _, _)
Builder_WithMany(m, v, bitIndices) ==
    IF bitIndices = <<>>
    THEN [val |-> v, mem |-> m, ok |-> TRUE]
    ELSE LET r == Builder_With(m, v, Head(bitIndices))
             rest == Builder_WithMany(r.mem, r.val, Tail(bitIndices))
         IN  [val |-> rest.val, mem |-> rest.mem, ok |-> r.ok /\ rest.ok]

bitSet64_Build(w) == Inline(w)

\* largeBitSet(b): the Set is the builder's own slice, not a copy.
bitSetBuilder_Build(a) == Heap(a)

Builder_Build(v) ==
    IF v.kind = "inline" THEN bitSet64_Build(v.word) ELSE bitSetBuilder_Build(v.addr)

\* Mutant: NewBuilder hands out again a slice of the wanted length that is
\* still in use, instead of making one.
NewBuilder_pooled(m, minCapacity) ==
    LET n == (minCapacity + 63) \div 64
        used == {a \in DOMAIN m : Len(m[a]) = n}
    IN  IF minCapacity <= 64
        THEN [val |-> Inline({}), mem |-> m, ok |-> TRUE]
        ELSE IF used # {}
        THEN [val |-> Heap(CHOOSE a \in used : \A c \in used : a <= c), mem |-> m, ok |-> TRUE]
        ELSE [val |-> Heap(FreeAddr(m)), mem |-> Alloc(m, Zeros(n)), ok |-> TRUE]

NewBuilder(m, minCapacity) ==
    IF minCapacity <= 64
    THEN [val |-> Inline({}), mem |-> m, ok |-> TRUE]
    ELSE [val |-> Heap(FreeAddr(m)),
          mem |-> Alloc(m, Zeros((minCapacity + 63) \div 64)),
          ok |-> TRUE]

\* ------------------------------------------------------------ observations
\* What a caller can see of a Set: its dynamic type and its words.
Repr(m, v) ==
    [kind |-> v.kind, words |-> IF v.kind = "inline" THEN <<v.word>> ELSE m[v.addr]]

Members(m, v) == {k \in Probe : Set_Has(m, v, k).res}

Range(q) == {q[k] : k \in 1..Len(q)}

\* -------------------------------------------------------------- the program
\* A caller holding one Set variable s and one Builder variable b.
\* set:  the Set held by s, with the call that returned it (op, the
\*       dynamic type of the receiver and whether the receiver
\*       had the index) and abs, the indices that were added and not removed
\*       afterwards.
\* bld:  the Builder held by b, whether Build was called on it, and the chain
\*       that led to it: the hint of NewBuilder, the indices of the With calls
\*       whose returned handle is the one now held (abs), the indices of all
\*       With calls made on the variable (given), and what
\*       New().Add(i1)...Add(in) is for the chain's indices (twin).
\* pend: the call each thread is inside (SpecConc).
SetEntry(v, abs, op, from, had) ==
    [val |-> v, abs |-> abs, op |-> op, from |-> from, had |-> had]

Idle == [state |-> "idle", op |-> "none", arg |-> 0, want |-> <<>>, got |-> <<>>,
         val |-> Inline({})]

HeapAddr(v) == IF v.kind = "heap" THEN {v.addr} ELSE {}

LiveAddrs(st, b, p) ==
    HeapAddr(st.val) \cup HeapAddr(b.val) \cup UNION {HeapAddr(p[th].val) : th \in Threads}

\* New().Add(i) carried out on the observation of a Set instead of on a
\* variable: the twin of a builder chain.
TwinAdd(twin, i) ==
    LET m == [EmptyMem EXCEPT ![1] = IF twin.kind = "heap" THEN twin.words ELSE Free]
        v == IF twin.kind = "heap" THEN Heap(1) ELSE Inline(twin.words[1])
        r == Set_Add(m, v, i)
    IN  Repr(r.mem, r.val)

RECURSIVE TwinAddAll(_, _)
TwinAddAll(twin, is) ==
    IF is = <<>> THEN twin ELSE TwinAddAll(TwinAdd(twin, Head(is)), Tail(is))

BldEntry(v, hint) ==
    [val |-> v, built |-> FALSE, hint |-> hint,
     abs |-> {}, given |-> {}, twin |-> Repr(EmptyMem, New)]

Init ==
    /\ mem = EmptyMem
    /\ set = SetEntry(New, {}, "New", "-", FALSE)
    /\ bld = BldEntry(NewBuilder(EmptyMem, 0).val, 0)
    /\ pend = [th \in Threads |-> Idle]

\* s.Has(i): reads and returns; it assigns nothing.
Has(i) ==
    /\ Set_Has(mem, set.val, i).res \in BOOLEAN
    /\ UNCHANGED vars

\* s = New()
CallNew ==
    /\ set' = SetEntry(New, {}, "New", "-", FALSE)
    /\ UNCHANGED <<bld, pend>>
    /\ mem' = Collect(mem, LiveAddrs(set', bld', pend'))

\* s = s.Add(i)
Add(i) ==
    LET r == Set_Add(mem, set.val, i)
    IN  /\ set' = SetEntry(r.val, set.abs \cup {i}, "Add", set.val.kind,
                            Set_Has(mem, set.val, i).res)
        /\ UNCHANGED <<bld, pend>>
        /\ mem' = Collect(r.mem, LiveAddrs(set', bld', pend'))

\* s = s.Remove(i)
Remove(i) ==
    LET r == Set_Remove(mem, set.val, i)
    IN  /\ set' = SetEntry(r.val, set.abs \ {i}, "Remove", set.val.kind,
                            Set_Has(mem, set.val, i).res)
        /\ UNCHANGED <<bld, pend>>
        /\ mem' = Collect(r.mem, LiveAddrs(set', bld', pend'))

\* b = NewBuilder(hint)
CallNewBuilder(hint) ==
    LET r == NewBuilder(mem, hint)
    IN  /\ bld' = BldEntry(r.val, hint)
        /\ UNCHANGED <<set, pend>>
        /\ mem' = Collect(r.mem, LiveAddrs(set', bld', pend'))

\* A With that returns b itself returns the handle the variable already holds.
SameHandle(v, r) == v.kind = "heap" /\ r.val = v

\* b = b.With(...) when keep, b.With(...) with the result dropped otherwise.
Chained(r, is, keep) ==
    /\ IF keep \/ SameHandle(bld.val, r)
       THEN bld' = [bld EXCEPT !.val = r.val,
                               !.abs = @ \cup Range(is),
                               !.given = @ \cup Range(is),
                               !.twin = TwinAddAll(@, is)]
       ELSE bld' = [bld EXCEPT !.given = @ \cup Range(is)]
    /\ UNCHANGED <<set, pend>>
    /\ mem' = Collect(r.mem, LiveAddrs(set', bld', pend'))

With(i, keep) ==
    /\ ~bld.built
    /\ Chained(Builder_With(mem, bld.val, i), <<i>>, keep)

CallWithMany(is) ==
    /\ ~bld.built
    /\ Chained(Builder_WithMany(mem, bld.val, is), is, TRUE)

\* s = b.Build()
Build ==
    /\ set' = SetEntry(Builder_Build(bld.val), bld.abs, "Build", bld.val.kind, FALSE)
    /\ bld' = [bld EXCEPT !.built = TRUE]
    /\ UNCHANGED pend
    /\ mem' = Collect(mem, LiveAddrs(set', bld', pend'))

Next ==
    \/ \E i \in Indices : Has(i)
    \/ CallNew
    \/ \E i \in Indices : Add(i)
    \/ \E i \in Indices : Remove(i)
    \/ \E hint \in Hints : CallNewBuilder(hint)
    \/ \E i \in Indices : With(i, TRUE)
    \/ Build

Spec == Init /\ [][Next]_vars

\* The builder alone, with WithMany (which leaves b as the same sequence of
\* With calls leaves it) and with calls whose returned handle is not used.
NextB ==
    \/ \E hint \in Hints : CallNewBuilder(hint)
    \/ \E i \in Indices, keep \in BOOLEAN : With(i, keep)
    \/ \E is \in ManySeqs : CallWithMany(is)
    \/ Build

SpecB == Init /\ [][NextB]_vars

\* The Set alone: s is reached from New() by Add and Remove only, with an
\* index in every word up to that of MaxIndex.
SetIndices == Probe \cup {2 * W + 1}

NextSet ==
    \/ \E i \in SetIndices : Has(i)
    \/ CallNew
    \/ \E i \in SetIndices : Add(i)
    \/ \E i \in SetIndices : Remove(i)

SpecSet == Init /\ [][NextSet]_vars

\* ------------------------------------------------- threads on one shared Set
\* s is shared and never assigned; each thread calls Has, Add or Remove on
\* it.  A call reads s when it returns; want is what the same call returns
\* when nothing else runs between its start and its return.
Observe(op, m, v, i) ==
    IF op = "Has" THEN <<Set_Has(m, v, i).res>>
    ELSE LET r == IF op = "Add" THEN Set_Add(m, v, i) ELSE Set_Remove(m, v, i)
         IN  <<Repr(r.mem, r.val)>>

InitConc ==
    \E hint \in Hints, is \in ManySeqs :
        LET b0 == NewBuilder(EmptyMem, hint)
            r == Builder_WithMany(b0.mem, b0.val, is)
        IN  /\ set = SetEntry(Builder_Build(r.val), Range(is), "Build", r.val.kind, FALSE)
            /\ bld = [BldEntry(r.val, hint) EXCEPT !.built = TRUE,
                                                   !.abs = Range(is),
                                                   !.given = Range(is),
                                                   !.twin = TwinAddAll(@, is)]
            /\ pend = [th \in Threads |-> Idle]
            /\ mem = Collect(r.mem, LiveAddrs(set, bld, pend))

TCall(th, op, i) ==
    /\ pend[th].state = "idle"
    /\ pend' = [pend EXCEPT ![th] = [Idle EXCEPT !.state = "called", !.op = op, !.arg = i,
                                                 !.want = Observe(op, mem, set.val, i)]]
    /\ UNCHANGED <<mem, set, bld>>

ReturnHas(th) ==
    /\ pend[th].state = "called" /\ pend[th].op = "Has"
    /\ pend' = [pend EXCEPT ![th].state = "done",
                            ![th].got = <<Set_Has(mem, set.val, pend[th].arg).res>>]
    /\ UNCHANGED <<mem, set, bld>>

Returned(th, r) ==
    /\ pend' = [pend EXCEPT ![th].state = "done",
                            ![th].got = <<Repr(r.mem, r.val)>>,
                            ![th].val = r.val]
    /\ UNCHANGED <<set, bld>>
    /\ mem' = Collect(r.mem, LiveAddrs(set', bld', pend'))

ReturnAdd(th) ==
    /\ pend[th].state = "called" /\ pend[th].op = "Add"
    /\ Returned(th, Set_Add(mem, set.val, pend[th].arg))

ReturnRemove(th) ==
    /\ pend[th].state = "called" /\ pend[th].op = "Remove"
    /\ Returned(th, Set_Remove(mem, set.val, pend[th].arg))

NextConc ==
    \/ \E th \in Threads, op \in {"Has", "Add", "Remove"}, i \in Indices : TCall(th, op, i)
    \/ \E th \in Threads : ReturnHas(th)
    \/ \E th \in Threads : ReturnAdd(th)
    \/ \E th \in Threads : ReturnRemove(th)

SpecConc == InitConc /\ [][NextConc]_vars

\* =================================================================== claims
BuiltSet == Builder_Build(bld.val)

\* C1: Has(k) on the Set held by s is true exactly for the indices k that
\* were added and not removed afterwards, in inline and in heap form, across
\* promotion and demotion.
C1_HasIsAddedNotRemoved == Members(mem, set.val) = set.abs

\* C1 witness: a Remove on a heap Set returned an inline Set that kept members.
C1_Witness ==
    set.op = "Remove" /\ set.from = "heap" /\ set.val.kind = "inline" /\ set.had /\ set.abs # {}

\* C2: no step changes the words of the shared Set or of a Set a call has
\* returned, and every Has, Add and Remove of a thread returns what it returns
\* when it runs alone on the shared Set.
C2_ReceiverUntouched ==
    [][/\ set'.val = set.val
       /\ Repr(mem', set'.val) = Repr(mem, set.val)
       /\ \A th \in Threads :
            /\ (pend[th].state = "called" /\ pend'[th].state = "done")
                   => pend'[th].got = pend[th].want
            /\ (pend[th].state = "done" /\ pend[th].op # "Has")
                   => Repr(mem', pend'[th].val) = Repr(mem, pend[th].val)]_vars

\* C2 witness: on a shared heap Set one thread's Add and another thread's
\* demoting Remove have both returned.
C2_Witness ==
    \E t1, t2 \in Threads :
        /\ set.val.kind = "heap"
        /\ pend[t1].state = "done" /\ pend[t1].op = "Add" /\ pend[t1].val.kind = "heap"
        /\ pend[t2].state = "done" /\ pend[t2].op = "Remove" /\ pend[t2].val.kind = "inline"

\* C3: a Set in heap form has a non-zero last word and a member >= 64.
C3_HeapIsNormal ==
    set.val.kind = "heap" =>
        LET b == mem[set.val.addr]
        IN  /\ b[Len(b)] # {}
            /\ \E k \in Members(mem, set.val) : k >= 64

\* C4: a builder from NewBuilder(0) builds the Set, the same in dynamic type
\* and in words, that New().Add(i1)...Add(in) is for the indices given to it,
\* and Has is true on it for exactly those indices.
C4_BuilderEqualsAdds ==
    bld.hint = 0 =>
        /\ Repr(mem, BuiltSet) = bld.twin
        /\ \A k \in Probe : Set_Has(mem, BuiltSet, k).res <=> k \in bld.abs

\* C4 witness: Build was called on a NewBuilder(0) builder that went to heap
\* form and holds three indices.
C4_Witness ==
    /\ bld.hint = 0 /\ bld.built /\ set.op = "Build"
    /\ set.val.kind = "heap" /\ Cardinality(bld.abs) >= 3

\* C5: for every index i that the Set held by s does not have,
\* s.Add(i).Remove(i) has the dynamic type and the words of s.
C5_RoundTrip ==
    \A i \in Indices :
        ~Set_Has(mem, set.val, i).res =>
            LET a == Set_Add(mem, set.val, i)
                r == Set_Remove(a.mem, a.val, i)
            IN  Repr(r.mem, r.val) = Repr(mem, set.val)

\* C6: s.Add(i).Add(i) equals s.Add(i) and s.Remove(i).Remove(i) equals
\* s.Remove(i), in dynamic type and in words.
C6_Idempotent ==
    \A i \in Indices :
        LET a1 == Set_Add(mem, set.val, i)
            a2 == Set_Add(a1.mem, a1.val, i)
            r1 == Set_Remove(mem, set.val, i)
            r2 == Set_Remove(r1.mem, r1.val, i)
        IN  /\ Repr(a2.mem, a2.val) = Repr(a1.mem, a1.val)
            /\ Repr(r2.mem, r2.val) = Repr(r1.mem, r1.val)

\* C6 witness: Add was called on a heap Set with an index it already had.
C6_Witness ==
    set.op = "Add" /\ set.had /\ set.from = "heap" /\ set.val.kind = "heap"

\* C7: whatever the hint, Has on the Set a builder builds is true exactly for
\* the indices of the With calls of its chain.
C7_BuilderKeepsBits == Members(mem, BuiltSet) = bld.abs

\* C7 witness: a NewBuilder(65) builder grew beyond its two words and still
\* holds an index below 64.
C7_Witness ==
    /\ bld.hint = W + 1 /\ bld.val.kind = "heap"
    /\ Len(mem[bld.val.addr]) > 2
    /\ \E k \in bld.abs : k < 64

\* C8 as claimed: an inline builder holds every index below 64 that With was
\* called with on it, whether or not the returned handle was used.
C8_ReceiverHoldsBit ==
    (bld.hint <= 64 /\ bld.val.kind = "inline") =>
        \A i \in bld.given : i < 64 => Set_Has(mem, BuiltSet, i).res

\* C8 amended: an inline builder holds the indices of the With calls whose
\* returned handle it is, and none of those whose returned handle was dropped.
C8_ReturnedHoldsBit ==
    bld.val.kind = "inline" =>
        /\ \A i \in bld.abs : Set_Has(mem, BuiltSet, i).res
        /\ \A i \in bld.given \ bld.abs : ~Set_Has(mem, BuiltSet, i).res

\* C8 witness: an inline builder after a With whose handle was kept and a
\* With below 64 whose handle was dropped.
C8_Witness ==
    /\ bld.val.kind = "inline" /\ bld.abs # {}
    /\ \E i \in bld.given \ bld.abs : i < 64

\* C9: a step that does not assign s leaves the words of the Set it holds
\* as they are, and a heap builder on which Build was not called shares its
\* slice with no Set.
C9_NoShare == (bld.val.kind = "heap" /\ ~bld.built) => set.val # bld.val

C9_BuilderNeverChangesSet ==
    [][/\ set' = set => Repr(mem', set'.val) = Repr(mem, set.val)
       /\ C9_NoShare']_vars

\* C9 witness: s holds a heap Set that a builder built, and b holds a later
\* heap builder that With has written to.
C9_Witness ==
    /\ set.op = "Build" /\ set.val.kind = "heap"
    /\ bld.val.kind = "heap" /\ ~bld.built /\ bld.abs # {}

\* C10: Has, Add, Remove and With touch no slot outside their slice, for
\* every index; Has of an index beyond the words is false, and Remove of an
\* index the Set does not have returns a Set with the same members.
C10_Total ==
    \A i \in Probe :
        LET h == Set_Has(mem, set.val, i)
            a == Set_Add(mem, set.val, i)
            r == Set_Remove(mem, set.val, i)
            w == Builder_With(mem, bld.val, i)
        IN  /\ h.ok /\ a.ok /\ r.ok /\ w.ok
            /\ i \div 64 >= Len(Repr(mem, set.val).words) => ~h.res
            /\ ~h.res => Members(r.mem, r.val) = Members(mem, set.val)

\* C10 witness: Remove was called on a heap Set with an index it did not have.
C10_Witness ==
    set.op = "Remove" /\ ~set.had /\ set.from = "heap"

\* C11: a Set reached from New() by Add and Remove only is inline, its word
\* holding its members, exactly when it has no member >= 64, and otherwise
\* is a heap sequence of floor(max member / 64) + 1 words holding its members;
\* so is what Add(i) and Remove(i) return for it: Add(i) with i >= 64 on an
\* inline Set is a heap of floor(i / 64) + 1 words with the old word in slot 0,
\* and Remove on a heap Set demotes when no member >= 64 survives and shrinks
\* to the highest surviving non-zero word otherwise.
C11_ReprByHighestMember ==
    LET Top(S) == CHOOSE k \in S : \A j \in S : j <= k
        Shape(S) ==
            IF \A k \in S : k < 64
            THEN [kind |-> "inline", words |-> <<S>>]
            ELSE [kind |-> "heap",
                  words |-> [n \in 1..(Top(S) \div 64 + 1) |->
                                {k % 64 : k \in {j \in S : j \div 64 = n - 1}}]]
    IN  /\ Repr(mem, set.val) = Shape(set.abs)
        /\ \A i \in SetIndices :
              LET a == Set_Add(mem, set.val, i)
                  r == Set_Remove(mem, set.val, i)
              IN  /\ Repr(a.mem, a.val) = Shape(set.abs \cup {i})
                  /\ Repr(r.mem, r.val) = Shape(set.abs \ {i})
                  /\ (set.val.kind = "inline" /\ i >= 64) =>
                        /\ Len(Repr(a.mem, a.val).words) = i \div 64 + 1
                        /\ Repr(a.mem, a.val).words[1] = set.val.word

\* C11 witness: s is New().Add(64).Add(MaxIndex), a heap of four words, from
\* which Remove(MaxIndex) returns a heap of two words.
C11_Witness ==
    /\ set.op = "Add" /\ set.abs = {W, MaxIndex} /\ set.val.kind = "heap"
    /\ Len(mem[set.val.addr]) = MaxIndex \div 64 + 1
    /\ LET r == Set_Remove(mem, set.val, MaxIndex)
       IN  r.val.kind = "heap" /\ Len(r.mem[r.val.addr]) = 2

====
